---- MODULE Spec2Model ----
(***************************************************************************)
(* A model of socials.js, the interactive keyword monitor: the command     *)
(* interpreter (handleCommand), the persistence functions (saveState,      *)
(* autosaveState, applyState, loadState), the fetch cycle (fetchAllData    *)
(* with its adapters fetchRss and scrapeDuckDuckGo), the periodic timer    *)
(* (restartFetchInterval) and the startup routine (start).                 *)
(*                                                                         *)
(* Strings of the program that are parsed, compared by prefix or matched   *)
(* (command lines, keywords, file names, titles) are sequences of          *)
(* one-character strings.  An optional JavaScript value (undefined / null  *)
(* or a value) is a sequence of length 0 or 1.                             *)
(***************************************************************************)
EXTENDS Integers, Sequences, FiniteSets, TLC

VARIABLES
    keywords,              \* state.keywords: source -> insertion-ordered Set
    limits,                \* state.limits: object, own keys are sources
    globalResultLimit,     \* state.globalResultLimit
    fetchIntervalMinutes,  \* state.fetchIntervalMinutes
    isFetching,            \* state.isFetching
    fetchIntervalId,       \* state.fetchIntervalId: 0 (null) or index in timers
    timers,                \* the setInterval timers alive: their delays (ms)
    files,                 \* the working directory: file name -> content
    dirOrder,              \* the order in which readdir lists names
    cycles,                \* the fetchAllData calls suspended at their await
    rendered,              \* observation: the list the last step passed to
                           \* renderResults, if it called it
    log,                   \* observation: what the last step sent to output.log
    ops,                   \* handleCommand calls suspended at an await
    startPc,               \* position of start()
    running,               \* FALSE after process.exit
    last,                  \* observation: the event of the last step
    hist,                  \* history: the last two commands, each with
                           \* state.keywords before it; emptied by a load
    typed                  \* the number of commands submitted so far

vars == <<keywords, limits, globalResultLimit, fetchIntervalMinutes, isFetching,
          fetchIntervalId, timers, files, dirOrder, cycles, rendered, log, ops,
          startPc, running, last, hist, typed>>

----------------------------------------------------------------------------
(* Generic helpers on sequences.                                           *)

Sources == <<"reddit", "hn", "ddg">>
SourceSet == {Sources[i] : i \in 1..Len(Sources)}

RECURSIVE SeqFilterOut(_, _)
SeqFilterOut(s, x) ==
    IF s = <<>> THEN <<>>
    ELSE IF Head(s) = x THEN SeqFilterOut(Tail(s), x)
    ELSE <<Head(s)>> \o SeqFilterOut(Tail(s), x)

Range(s) == {s[i] : i \in 1..Len(s)}

StartsWith(s, p) == Len(p) <= Len(s) /\ SubSeq(s, 1, Len(p)) = p
EndsWith(s, p) == Len(p) <= Len(s) /\ SubSeq(s, Len(s) - Len(p) + 1, Len(s)) = p

RECURSIVE Flat(_)
Flat(ss) == IF ss = <<>> THEN <<>> ELSE Head(ss) \o Flat(Tail(ss))

\* A JavaScript Set keeps insertion order: add appends unless present,
\* delete removes, new Set(array) keeps first occurrences.
SetAdd(s, x) == IF x \in Range(s) THEN s ELSE Append(s, x)
SetDeleteHead(s, x) == IF s = <<>> THEN s ELSE Tail(s)
SetDelete(s, x) == SeqFilterOut(s, x)
RECURSIVE NewSet(_)
NewSet(arr) ==
    IF arr = <<>> THEN <<>>
    ELSE LET r == NewSet(SubSeq(arr, 1, Len(arr) - 1))
         IN  SetAdd(r, arr[Len(arr)])

----------------------------------------------------------------------------
(* Words of the command language, as character sequences.                  *)

W_reddit == <<"r", "e", "d", "d", "i", "t">>
W_hn == <<"h", "n">>
W_ddg == <<"d", "d", "g">>
W_list == <<"l", "i", "s", "t">>
W_set == <<"s", "e", "t">>
W_interval == <<"i", "n", "t", "e", "r", "v", "a", "l">>
W_default == <<"d", "e", "f", "a", "u", "l", "t">>
W_save == <<"s", "a", "v", "e">>
W_load == <<"l", "o", "a", "d">>
W_help == <<"h", "e", "l", "p">>
W_fetch == <<"f", "e", "t", "c", "h">>
W_clear == <<"c", "l", "e", "a", "r">>
W_exit == <<"e", "x", "i", "t">>
DotJson == <<".", "j", "s", "o", "n">>
DEFAULT_SETTINGS_FILE == <<"s", "e", "t", "t", "i", "n", "g", "s">> \o DotJson

SourceWord(s) ==
    CASE s = "reddit" -> W_reddit
      [] s = "hn" -> W_hn
      [] s = "ddg" -> W_ddg

\* sources.includes(w), and the key of state.keywords / state.limits it names
IsSourceWord(w) == \E s \in SourceSet : SourceWord(s) = w
SourceKey(w) == CHOOSE s \in SourceSet : SourceWord(s) = w

\* String.prototype.toLowerCase on the letters the model uses in upper case
LowerCh(c) ==
    CASE c = "P" -> "p"
      [] c = "I" -> "i"
      [] c = "D" -> "d"
      [] c = "L" -> "l"
      [] OTHER -> c
ToLowerCase(s) == [i \in 1..Len(s) |-> LowerCh(s[i])]

----------------------------------------------------------------------------
(* handleCommand, line 289: command.match(/"([^"]+)"|'([^']+)'|(\S+)/g)    *)

DQ == "\""
SQ == "'"
IsSpace(c) == c = " "

\* the least j > i with s[j] = q, or 0
RECURSIVE NextQuote(_, _, _)
NextQuote(s, i, q) ==
    IF i + 1 > Len(s) THEN 0
    ELSE IF s[i + 1] = q THEN i + 1
    ELSE NextQuote(s, i + 1, q)

\* the last index of the run of non-space characters that starts at i
RECURSIVE RunEnd(_, _)
RunEnd(s, i) ==
    IF i + 1 > Len(s) \/ IsSpace(s[i + 1]) THEN i ELSE RunEnd(s, i + 1)

\* The end of the leftmost match starting at i, alternatives in order:
\* a quoted non-empty run without the quote, else a run of non-space.
MatchEnd(s, i) ==
    LET j == IF s[i] \in {DQ, SQ} THEN NextQuote(s, i, s[i]) ELSE 0
    IN  IF j >= i + 2 THEN j ELSE RunEnd(s, i)

RECURSIVE TokensFrom(_, _)
TokensFrom(s, i) ==
    IF i > Len(s) THEN <<>>
    ELSE IF IsSpace(s[i]) THEN TokensFrom(s, i + 1)
    ELSE LET e == MatchEnd(s, i)
         IN  <<SubSeq(s, i, e)>> \o TokensFrom(s, e + 1)

Tokenize(command) == TokensFrom(command, 1)

\* line 291: p.replace(/["']/g, '')
RECURSIVE StripQuotes(_)
StripQuotes(p) ==
    IF p = <<>> THEN <<>>
    ELSE IF Head(p) \in {DQ, SQ} THEN StripQuotes(Tail(p))
    ELSE <<Head(p)>> \o StripQuotes(Tail(p))

\* lines 289-291
ActionOf(command) == ToLowerCase(Head(Tokenize(command)))
ArgsOf(command) ==
    LET parts == Tail(Tokenize(command))
    IN  [i \in 1..Len(parts) |-> StripQuotes(parts[i])]

----------------------------------------------------------------------------
(* parseInt(x, 10): leading white space, an optional sign, then the        *)
(* longest run of decimal digits; NaN when there is no digit.              *)

DigitVal(c) ==
    CASE c = "0" -> 0 [] c = "1" -> 1 [] c = "2" -> 2 [] c = "3" -> 3
      [] c = "4" -> 4 [] c = "5" -> 5 [] c = "6" -> 6 [] c = "7" -> 7
      [] c = "8" -> 8 [] c = "9" -> 9 [] OTHER -> -1
IsDigit(c) == DigitVal(c) >= 0

RECURSIVE SkipSpaces(_)
SkipSpaces(s) ==
    IF s # <<>> /\ IsSpace(Head(s)) THEN SkipSpaces(Tail(s)) ELSE s

RECURSIVE DigitsValue(_, _)
DigitsValue(s, acc) ==
    IF s = <<>> \/ ~IsDigit(Head(s)) THEN acc
    ELSE DigitsValue(Tail(s), 10 * acc + DigitVal(Head(s)))

\* an optional argument (args[i], possibly undefined) -> an optional integer
\* (<<>> is NaN)
ParseInt(arg) ==
    IF arg = <<>> THEN <<>>
    ELSE LET t == SkipSpaces(arg[1])
             neg == t # <<>> /\ Head(t) = "-"
             u == IF t # <<>> /\ Head(t) \in {"-", "+"} THEN Tail(t) ELSE t
         IN  IF u = <<>> \/ ~IsDigit(Head(u)) THEN <<>>
             ELSE <<(IF neg THEN -1 ELSE 1) * DigitsValue(u, 0)>>

\* args[i] as an optional value
Arg(args, i) == IF i <= Len(args) THEN <<args[i]>> ELSE <<>>
\* !args[i]: undefined or the empty string
Falsy(arg) == arg = <<>> \/ arg[1] = <<>>

----------------------------------------------------------------------------
(* findAndHighlightKeywords, lines 161-172: for each keyword the regular   *)
(* expression \b<keyword, escaped>\b with flags g and i is tested on the   *)
(* text.  Only matchedKeywords is modelled; the highlighted text is markup.*)

WordChars ==
    {"a", "b", "c", "d", "e", "f", "g", "h", "i", "j", "k", "l", "m", "n", "o",
     "p", "q", "r", "s", "t", "u", "v", "w", "x", "y", "z",
     "P", "I", "D", "L",
     "0", "1", "2", "3", "4", "5", "6", "7", "8", "9", "_"}
IsWordCh(c) == c \in WordChars

\* \b between text[p-1] and text[p]; outside the text counts as non-word
IsWordAt(text, p) == p >= 1 /\ p <= Len(text) /\ IsWordCh(text[p])
Boundary(text, p) == IsWordAt(text, p - 1) # IsWordAt(text, p)

\* the keyword occurs at text[i .. i+Len(kw)-1], ignoring case, as a whole word
MatchesAt(text, kw, i) ==
    /\ i + Len(kw) - 1 <= Len(text)
    /\ \A j \in 1..Len(kw) : LowerCh(text[i + j - 1]) = LowerCh(kw[j])
    /\ Boundary(text, i)
    /\ Boundary(text, i + Len(kw))

RegexTest(text, kw) == \E i \in 1..(Len(text) + 1) : MatchesAt(text, kw, i)

RECURSIVE MatchedKeywords(_, _)
MatchedKeywords(text, kws) ==
    IF kws = <<>> THEN <<>>
    ELSE (IF RegexTest(text, Head(kws)) THEN <<Head(kws)>> ELSE <<>>)
         \o MatchedKeywords(text, Tail(kws))

\* item.title + ' ' + item.snippet, line 234 (an undefined title prints as
\* "undefined")
W_undefined == <<"u", "n", "d", "e", "f", "i", "n", "e", "d">>
ItemText(item) ==
    (IF item.title = <<>> THEN W_undefined ELSE item.title[1])
    \o <<" ">> \o item.snippet

----------------------------------------------------------------------------
(* The adapters.  A network response is an error or a list of entries; the *)
(* adapter maps it to the value its promise settles with.                  *)

Now == 40
thirtyDaysAgo == Now - 30

SourceName(s) ==
    CASE s = "reddit" -> "Reddit"
      [] s = "hn" -> "Hacker News"
      [] s = "ddg" -> "DuckDuckGo"

RECURSIVE SelectSeq2(_, _)
SelectSeq2(s, keep) ==
    IF s = <<>> THEN <<>>
    ELSE (IF keep[1] THEN <<Head(s)>> ELSE <<>>)
         \o SelectSeq2(Tail(s), Tail(keep))

\* the value a settled adapter promise carries
Resolved(items) == [rejected |-> FALSE, items |-> items]
Rejected == [rejected |-> TRUE, items |-> <<>>]

\* fetchRss, lines 101-116.  An entry: [title, link, isoDate, snippet].
\* lines 103-111: the items of a parsed feed
FetchRssItems(source, response) ==
    LET mapped == [i \in 1..Len(response.entries) |->
                      [source |-> source,
                       title |-> response.entries[i].title,
                       link |-> response.entries[i].link,
                       date |-> response.entries[i].isoDate,
                       snippet |-> response.entries[i].snippet]]
        keep == [i \in 1..Len(mapped) |->
                    mapped[i].date # <<>> /\ mapped[i].date[1] > thirtyDaysAgo]
    IN  SelectSeq2(mapped, keep)
FetchRssRethrows(source, response) ==
    IF response.error THEN Rejected
    ELSE Resolved(FetchRssItems(source, response))
FetchRss(source, response) ==
    IF response.error THEN Resolved(<<>>)
    ELSE Resolved(FetchRssItems(source, response))

\* scrapeDuckDuckGo, lines 118-159.  An entry: [title, link, snippet], where
\* link is the href after the redirect clean-up of lines 129-148 ("" when
\* the element has no href).
\* lines 124-153: the results of the page
ScrapeDuckDuckGoItems(response) ==
    LET mapped == [i \in 1..Len(response.entries) |->
                      [source |-> "DuckDuckGo",
                       title |-> <<response.entries[i].title>>,
                       link |-> response.entries[i].link,
                       date |-> <<>>,
                       snippet |-> response.entries[i].snippet]]
        keep == [i \in 1..Len(mapped) |->
                    mapped[i].title[1] # <<>> /\ mapped[i].link # ""]
    IN  SelectSeq2(mapped, keep)
ScrapeDuckDuckGoRethrows(response) ==
    IF response.error THEN Rejected
    ELSE Resolved(ScrapeDuckDuckGoItems(response))
ScrapeDuckDuckGo(response) ==
    IF response.error THEN Resolved(<<>>)
    ELSE Resolved(ScrapeDuckDuckGoItems(response))

\* the adapter call of one task, lines 213-215
Adapter(task, response) ==
    IF task.source = "ddg" THEN ScrapeDuckDuckGo(response)
    ELSE FetchRss(SourceName(task.source), response)

----------------------------------------------------------------------------
(* The pipeline of fetchAllData after its await, lines 224-258, as         *)
(* functions of the settled values and of the configuration at that time.  *)

\* line 224: (await Promise.all(allFetchTasks)).flat()
AllResultsRaw(results) == Flat([i \in 1..Len(results) |-> results[i][1].items])

\* lines 226-227: the values of the Map, in insertion order
UniqueResultsNoLinkCheck(raw) ==
    SelectSeq2(raw, [i \in 1..Len(raw) |->
        \A j \in 1..(i - 1) : raw[j].link # raw[i].link])
UniqueResultsLastWins(raw) ==
    SelectSeq2(raw, [i \in 1..Len(raw) |->
        /\ raw[i].link # ""
        /\ \A j \in (i + 1)..Len(raw) : raw[j].link # raw[i].link])
UniqueResults(raw) ==
    SelectSeq2(raw, [i \in 1..Len(raw) |->
        /\ raw[i].link # ""
        /\ \A j \in 1..(i - 1) : raw[j].link # raw[i].link])

\* line 230: new Set([...reddit, ...hn, ...ddg])
AllKeywords(kws) == NewSet(kws["reddit"] \o kws["hn"] \o kws["ddg"])

\* lines 233-242
FinalResults(unique, allKeywords) ==
    LET all == [i \in 1..Len(unique) |->
                  [item |-> unique[i],
                   matchedKeywords |-> MatchedKeywords(ItemText(unique[i]), allKeywords)]]
    IN  SelectSeq2(all, [i \in 1..Len(all) |-> all[i].matchedKeywords # <<>>])

\* line 239 reads item.title.length: a TypeError when the title is undefined
PipelineThrows(final) == \E i \in 1..Len(final) : final[i].item.title = <<>>

\* Array.prototype.slice(0, n)
Slice(s, n) ==
    IF n >= 0 THEN SubSeq(s, 1, IF n < Len(s) THEN n ELSE Len(s))
    ELSE SubSeq(s, 1, Len(s) + n)

\* line 251: state.limits[sourceStateKey] ?? state.globalResultLimit
EffectiveLimitGlobalOnly(lims, global, key) == global
EffectiveLimit(lims, global, key) ==
    IF lims[key] # <<>> THEN lims[key][1] ELSE global

\* lines 244-246: the matched items of one source, in the order of finalResults
LimitedResults(final, key) ==
    SelectSeq2(final, [i \in 1..Len(final) |-> final[i].item.source = SourceName(key)])

\* lines 248-253
Truncated(final, lims, global) ==
    Flat([k \in 1..Len(Sources) |->
            Slice(LimitedResults(final, Sources[k]),
                  EffectiveLimit(lims, global, Sources[k]))])

\* line 255: a stable sort with comparator (b.item.date || 0) - (a.item.date || 0)
SortKey(r) == IF r.item.date = <<>> THEN 0 ELSE r.item.date[1]
RECURSIVE InsertSortedUnstable(_, _)
InsertSortedUnstable(sorted, r) ==
    IF sorted = <<>> THEN <<r>>
    ELSE IF SortKey(Head(sorted)) > SortKey(r)
         THEN <<Head(sorted)>> \o InsertSortedUnstable(Tail(sorted), r)
         ELSE <<r>> \o sorted
RECURSIVE InsertSorted(_, _)
InsertSorted(sorted, r) ==
    IF sorted = <<>> THEN <<r>>
    ELSE IF SortKey(Head(sorted)) >= SortKey(r)
         THEN <<Head(sorted)>> \o InsertSorted(Tail(sorted), r)
         ELSE <<r>> \o sorted
RECURSIVE SortByDate(_)
SortByDate(s) ==
    IF s = <<>> THEN <<>>
    ELSE InsertSorted(SortByDate(SubSeq(s, 1, Len(s) - 1)), s[Len(s)])

\* lines 226-255: displayResults
DisplayResults(raw, kws, lims, global) ==
    SortByDate(Truncated(FinalResults(UniqueResults(raw), AllKeywords(kws)), lims, global))

----------------------------------------------------------------------------
(* Persistence, lines 47-98.  A file content is a parsed JSON document: a  *)
(* record of optional fields, or a text JSON.parse rejects (json = FALSE). *)
(* The value of keywords.<source> is an array, or absent, or (for the      *)
(* sources in scalar) a number, which new Set() rejects.                   *)

DefaultGlobalResultLimit == 10
DefaultFetchIntervalMinutes == 5
FallbackGlobalResultLimit == 10

NoKeywords == [s \in SourceSet |-> <<>>]
NoLimits == [s \in SourceSet |-> <<>>]
Corrupt == [json |-> FALSE, keywords |-> <<>>, scalar |-> {}, limits |-> <<>>,
            globalResultLimit |-> <<>>, fetchIntervalMinutes |-> <<>>]

\* lines 49-59: savableState, serialised when saveState is called
SavableState(kws, lims, global, minutes) ==
    [json |-> TRUE,
     keywords |-> <<[s \in SourceSet |-> <<kws[s]>>]>>,
     scalar |-> {},
     limits |-> <<lims>>,
     globalResultLimit |-> <<global>>,
     fetchIntervalMinutes |-> <<minutes>>]

\* line 72 (after JSON.parse, line 88): does applyState accept the document
ApplyStateAccepts(doc) ==
    /\ doc.json
    /\ doc.keywords # <<>>
    /\ doc.limits # <<>>
    /\ doc.fetchIntervalMinutes # <<>>

\* lines 75-77: new Set(loadedData.keywords.<source> || [])
LoadedKeywords(doc) ==
    [s \in SourceSet |->
        IF doc.keywords[1][s] = <<>> THEN <<>> ELSE NewSet(doc.keywords[1][s][1])]

\* line 79: loadedData.globalResultLimit || 10
LoadedGlobalLimit(doc) ==
    IF doc.globalResultLimit = <<>> \/ doc.globalResultLimit[1] = 0
    THEN FallbackGlobalResultLimit
    ELSE doc.globalResultLimit[1]

\* lines 75-77 run in the order reddit, hn, ddg: the place in Sources of the
\* first source whose value new Set() rejects with a TypeError, or 0
FirstScalar(doc) ==
    IF \E k \in 1..Len(Sources) : Sources[k] \in doc.scalar
    THEN CHOOSE k \in 1..Len(Sources) :
            /\ Sources[k] \in doc.scalar
            /\ \A j \in 1..(k - 1) : Sources[j] \notin doc.scalar
    ELSE 0
\* state.keywords when that TypeError leaves applyState
PartlyLoadedKeywords(doc, kws) ==
    [s \in SourceSet |->
        IF \E k \in 1..(FirstScalar(doc) - 1) : Sources[k] = s
        THEN LoadedKeywords(doc)[s]
        ELSE kws[s]]

\* line 381-382: setInterval(fetchAllData, minutes * 60 * 1000).  A delay
\* below 1 or above TIMEOUT_MAX is set to 1 by setInterval.
MsPerMinute == 60000
TIMEOUT_MAX == 2147483647
Delay(minutes) ==
    IF minutes < 1 \/ minutes > TIMEOUT_MAX \div MsPerMinute THEN 1
    ELSE minutes * MsPerMinute

\* restartFetchInterval, lines 379-383: the timers alive afterwards
RemoveAt(s, i) == SubSeq(s, 1, i - 1) \o SubSeq(s, i + 1, Len(s))
RestartedTimers(tms, id, minutes) ==
    Append(IF id # 0 THEN RemoveAt(tms, id) ELSE tms, Delay(minutes))

\* line 358: files.find(f => f.startsWith(arg) && f.endsWith('.json'))
RECURSIVE Find(_, _)
Find(listing, arg) ==
    IF listing = <<>> THEN <<>>
    ELSE IF StartsWith(Head(listing), arg) /\ EndsWith(Head(listing), DotJson)
         THEN <<Head(listing)>>
         ELSE Find(Tail(listing), arg)

\* readdir('.'): the names present, in listing order
Listing(fs, order) ==
    SelectSeq2(order, [i \in 1..Len(order) |-> order[i] \in DOMAIN fs])

WriteFile(fs, name, content) ==
    [f \in DOMAIN fs \cup {name} |-> IF f = name THEN content ELSE fs[f]]

----------------------------------------------------------------------------
(* fetchAllData up to its await, lines 206-224.                            *)

\* lines 212-215: one adapter call per (source, keyword), reddit, hn, ddg
TasksRssOnly(kws) ==
    Flat([k \in 1..2 |->
            [i \in 1..Len(kws[Sources[k]]) |->
                [source |-> Sources[k], kw |-> kws[Sources[k]][i]]]])
Tasks(kws) ==
    Flat([k \in 1..Len(Sources) |->
            [i \in 1..Len(kws[Sources[k]]) |->
                [source |-> Sources[k], kw |-> kws[Sources[k]][i]]]])

\* a call suspended at line 224; responses records what the network answered
NewCycle(kws, awaited) ==
    [tasks |-> Tasks(kws),
     results |-> [i \in 1..Len(Tasks(kws)) |-> <<>>],
     responses |-> [i \in 1..Len(Tasks(kws)) |-> <<>>],
     awaited |-> awaited]

\* the effect of one call on isFetching and on the suspended calls
FetchAllDataNoGuard(fetching, cyc, kws, awaited) ==
    IF Tasks(kws) = <<>>
    THEN [isFetching |-> FALSE, cycles |-> cyc, said |-> "No keywords to monitor"]
    ELSE [isFetching |-> TRUE, cycles |-> Append(cyc, NewCycle(kws, awaited)),
          said |-> "Checking for new items"]
FetchAllDataNoEmptyCheck(fetching, cyc, kws, awaited) ==
    IF fetching
    THEN [isFetching |-> fetching, cycles |-> cyc, said |-> ""]
    ELSE [isFetching |-> TRUE, cycles |-> Append(cyc, NewCycle(kws, awaited)),
          said |-> "Checking for new items"]
FetchAllData(fetching, cyc, kws, awaited) ==
    IF fetching
    THEN [isFetching |-> fetching, cycles |-> cyc, said |-> ""]
    ELSE IF Tasks(kws) = <<>>
    THEN [isFetching |-> FALSE, cycles |-> cyc, said |-> "No keywords to monitor"]
    ELSE [isFetching |-> TRUE, cycles |-> Append(cyc, NewCycle(kws, awaited)),
          said |-> "Checking for new items"]

----------------------------------------------------------------------------
(* handleCommand, lines 287-377: the synchronous part of one call.         *)

\* line 298: args.forEach(kw => targetSources.forEach(s => add or delete))
RECURSIVE KeywordUpdate(_, _, _, _)
KeywordUpdate(kws, add, targets, args) ==
    IF args = <<>> THEN kws
    ELSE KeywordUpdate(
            [s \in SourceSet |->
                IF s \notin targets THEN kws[s]
                ELSE IF add THEN SetAdd(kws[s], Head(args))
                ELSE SetDelete(kws[s], Head(args))],
            add, targets, Tail(args))

\* line 297
TargetSources(sourceMatch) ==
    IF IsSourceWord(sourceMatch) THEN {SourceKey(sourceMatch)} ELSE SourceSet

Op(kind, name, content) == [kind |-> kind, name |-> name, content |-> content]
NoDoc == Corrupt

\* What one call does before it first awaits or returns: the new
\* configuration, whether it restarts the timer, calls fetchAllData, exits,
\* sets stateChanged, and the file operation it then awaits.
Effect(kws, lims, global, minutes) ==
    [keywords |-> kws, limits |-> lims, globalResultLimit |-> global,
     fetchIntervalMinutes |-> minutes, restart |-> FALSE, fetch |-> FALSE,
     exit |-> FALSE, stateChanged |-> FALSE, op |-> <<>>, said |-> ""]

\* lines 296-301: the + and - commands
KeywordEffectNoFetch(same, add, targets, args) ==
    [same EXCEPT
        !.keywords = KeywordUpdate(same.keywords, add, targets, args),
        !.said = "Keywords updated",
        !.stateChanged = TRUE]
KeywordEffect(same, add, targets, args) ==
    [same EXCEPT
        !.keywords = KeywordUpdate(same.keywords, add, targets, args),
        !.said = "Keywords updated",
        !.stateChanged = TRUE,
        !.fetch = TRUE]

CommandEffect(command, kws, lims, global, minutes) ==
    LET same == Effect(kws, lims, global, minutes)
        parts == Tokenize(command)
        action == ActionOf(command)
        args == ArgsOf(command)
    IN
    IF parts = <<>> THEN [same EXCEPT !.said = "TypeError"]            \* line 290
    ELSE IF Head(action) \in {"+", "-"} THEN                           \* 295-301
        KeywordEffect(same, Head(action) = "+", TargetSources(Tail(action)), args)
    ELSE IF Head(action) = "~" THEN                                    \* 302-320
        IF ~IsSourceWord(Tail(action)) THEN [same EXCEPT !.said = "Invalid source"]
        ELSE LET source == SourceKey(Tail(action))
                 limit == ParseInt(Arg(args, 1))
             IN  IF Falsy(Arg(args, 1)) THEN [same EXCEPT !.said = "Settings"]
                 ELSE IF ToLowerCase(args[1]) = W_default THEN
                    [same EXCEPT !.limits = [lims EXCEPT ![source] = <<>>],
                                 !.said = "limit reset",
                                 !.stateChanged = TRUE]
                 ELSE IF limit # <<>> /\ limit[1] >= 0 THEN
                    [same EXCEPT !.limits = [lims EXCEPT ![source] = limit],
                                 !.said = "limit set",
                                 !.stateChanged = TRUE]
                 ELSE [same EXCEPT !.said = "Invalid limit"]
    ELSE IF action = W_list THEN [same EXCEPT !.said = "Settings"]     \* 321-322
    ELSE IF action = W_set THEN                                        \* 323-349
        LET setting == IF Falsy(Arg(args, 1)) THEN <<>> ELSE ToLowerCase(args[1])
            value == ParseInt(Arg(args, 2))
        IN  IF setting = W_list THEN
                IF value # <<>> /\ value[1] >= 0
                THEN [same EXCEPT !.globalResultLimit = value[1],
                                  !.said = "Global result limit set",
                                  !.stateChanged = TRUE]
                ELSE [same EXCEPT !.said = "Usage"]
            ELSE IF setting = W_interval THEN
                IF value # <<>> /\ value[1] > 0
                THEN [same EXCEPT !.fetchIntervalMinutes = value[1],
                                  !.restart = TRUE,
                                  !.said = "Fetch interval updated",
                                  !.stateChanged = TRUE]
                ELSE [same EXCEPT !.said = "Usage"]
            ELSE IF setting = W_default THEN
                IF Falsy(Arg(args, 2)) THEN [same EXCEPT !.said = "Usage"]
                ELSE [same EXCEPT !.op = <<Op("copy", args[2], NoDoc)>>]
            ELSE [same EXCEPT !.said = "Invalid set command"]
    ELSE IF action = W_save THEN                                       \* 350-352
        IF Falsy(Arg(args, 1)) THEN [same EXCEPT !.said = "Usage"]
        ELSE [same EXCEPT
                !.op = <<Op("save", args[1], SavableState(kws, lims, global, minutes))>>]
    ELSE IF action = W_load THEN                                       \* 353-362
        IF Falsy(Arg(args, 1)) THEN [same EXCEPT !.said = "Usage"]
        ELSE [same EXCEPT !.op = <<Op("readdir", args[1], NoDoc)>>]
    ELSE IF command = W_help THEN [same EXCEPT !.said = "Help"]        \* 363-364
    ELSE IF command = W_fetch THEN [same EXCEPT !.fetch = TRUE]        \* 365-366
    ELSE IF command = W_clear THEN same                                \* 367-368
    ELSE IF command = W_exit THEN [same EXCEPT !.exit = TRUE]          \* 369-370
    ELSE [same EXCEPT !.said = "Unknown command"]                      \* 371-373

----------------------------------------------------------------------------
(* The state machine.                                                      *)

MaxOps == 2

\* an event: its kind, the command line of a command, the document a load
\* parsed, the argument of a load and the file name it was resolved to, and
\* for the end of a cycle the suspended call with its uniqueResults and
\* finalResults
NoEvent(ev) ==
    [ev |-> ev, line |-> <<>>, doc |-> <<>>, arg |-> <<>>, target |-> <<>>,
     cycle |-> <<>>, unique |-> <<>>, final |-> <<>>]
Said(a, b) == SelectSeq(<<a, b>>, LAMBDA x : x # "")

\* applyState, lines 71-83, on an accepted document
ApplyState(doc, tms, id) ==
    [keywords |-> LoadedKeywords(doc),
     limits |-> doc.limits[1],
     globalResultLimit |-> LoadedGlobalLimit(doc),
     fetchIntervalMinutes |-> doc.fetchIntervalMinutes[1],
     timers |-> RestartedTimers(tms, id, doc.fetchIntervalMinutes[1])]

\* loadState, lines 85-98, once readFile has settled with the content read
\* (none when the file does not exist)
Unloaded(kws, lims, global, minutes, tms, id, said) ==
    [keywords |-> kws, limits |-> lims, globalResultLimit |-> global,
     fetchIntervalMinutes |-> minutes, timers |-> tms, fetchIntervalId |-> id,
     said |-> said]
LoadStateBlankOnError(read, kws, lims, global, minutes, tms, id) ==
    IF read = <<>> \/ ~ApplyStateAccepts(read[1]) \/ FirstScalar(read[1]) # 0
    THEN Unloaded(NoKeywords, NoLimits, DefaultGlobalResultLimit,
                  DefaultFetchIntervalMinutes, tms, id, "Error loading state")
    ELSE LET a == ApplyState(read[1], tms, id)
         IN  Unloaded(a.keywords, a.limits, a.globalResultLimit,
                      a.fetchIntervalMinutes, a.timers, Len(a.timers),
                      "Successfully loaded")
LoadState(read, kws, lims, global, minutes, tms, id) ==
    IF read = <<>>
    THEN Unloaded(kws, lims, global, minutes, tms, id, "No default settings file found")
    ELSE IF ~ApplyStateAccepts(read[1])
    THEN Unloaded(kws, lims, global, minutes, tms, id, "Error loading state")
    ELSE IF FirstScalar(read[1]) # 0
    THEN Unloaded(PartlyLoadedKeywords(read[1], kws), lims, global, minutes, tms, id,
                  "Error loading state")
    ELSE LET a == ApplyState(read[1], tms, id)
         IN  Unloaded(a.keywords, a.limits, a.globalResultLimit,
                      a.fetchIntervalMinutes, a.timers, Len(a.timers),
                      "Successfully loaded")

Init ==
    /\ keywords = NoKeywords
    /\ limits = NoLimits
    /\ globalResultLimit = DefaultGlobalResultLimit
    /\ fetchIntervalMinutes = DefaultFetchIntervalMinutes
    /\ isFetching = FALSE
    /\ fetchIntervalId = 0
    /\ timers = <<>>
    /\ cycles = <<>>
    /\ rendered = <<>>
    /\ log = <<>>
    /\ ops = <<>>
    /\ startPc = "load"
    /\ running = TRUE
    /\ last = NoEvent("init")
    /\ hist = <<>>
    /\ typed = 0

\* start, lines 397-406: loadState(DEFAULT_SETTINGS_FILE), then the initial
\* fetch when a keyword was loaded.  The input box gets the focus only when
\* start returns, so no command is handled before.
Start ==
    /\ running /\ startPc = "load"
    /\ LET read == IF DEFAULT_SETTINGS_FILE \in DOMAIN files
                   THEN <<files[DEFAULT_SETTINGS_FILE]>> ELSE <<>>
           l == LoadState(read, keywords, limits, globalResultLimit,
                          fetchIntervalMinutes, timers, fetchIntervalId)
           f == IF Tasks(l.keywords) # <<>>
                THEN FetchAllData(isFetching, cycles, l.keywords, TRUE)
                ELSE [isFetching |-> isFetching, cycles |-> cycles, said |-> ""]
       IN  /\ keywords' = l.keywords
           /\ limits' = l.limits
           /\ globalResultLimit' = l.globalResultLimit
           /\ fetchIntervalMinutes' = l.fetchIntervalMinutes
           /\ timers' = l.timers
           /\ fetchIntervalId' = l.fetchIntervalId
           /\ isFetching' = f.isFetching
           /\ cycles' = f.cycles
           /\ startPc' = IF Len(f.cycles) > Len(cycles) THEN "fetching" ELSE "done"
           /\ log' = Said(l.said, f.said)
           /\ last' = [NoEvent("start") EXCEPT !.doc = read]
    /\ rendered' = <<>>
    /\ hist' = <<>>
    /\ UNCHANGED <<files, dirOrder, ops, running, typed>>

\* the submit handler, line 393, and handleCommand up to its first await
HandleCommand(command, maxCmds) ==
    /\ running /\ startPc = "done"
    /\ command # <<>>
    /\ typed < maxCmds
    /\ typed' = typed + 1
    /\ LET e == CommandEffect(command, keywords, limits, globalResultLimit,
                              fetchIntervalMinutes)
           f == IF e.fetch
                THEN FetchAllData(isFetching, cycles, e.keywords, FALSE)
                ELSE [isFetching |-> isFetching, cycles |-> cycles, said |-> ""]
           tms == IF e.restart
                  THEN RestartedTimers(timers, fetchIntervalId, e.fetchIntervalMinutes)
                  ELSE timers
           \* line 375: autosaveState() serialises the state at once
           op == IF e.stateChanged
                 THEN <<Op("autosave", DEFAULT_SETTINGS_FILE,
                           SavableState(e.keywords, e.limits, e.globalResultLimit,
                                        e.fetchIntervalMinutes))>>
                 ELSE e.op
       IN  /\ op # <<>> => Len(ops) < MaxOps
           /\ keywords' = e.keywords
           /\ limits' = e.limits
           /\ globalResultLimit' = e.globalResultLimit
           /\ fetchIntervalMinutes' = e.fetchIntervalMinutes
           /\ timers' = tms
           /\ fetchIntervalId' = IF e.restart THEN Len(tms) ELSE fetchIntervalId
           /\ isFetching' = f.isFetching
           /\ cycles' = f.cycles
           /\ ops' = IF e.exit THEN ops ELSE ops \o op
           /\ running' = ~e.exit
           /\ log' = Said(e.said, f.said)
    /\ rendered' = <<>>
    /\ last' = [NoEvent("cmd") EXCEPT !.line = <<command>>]
    /\ hist' = (IF hist = <<>> THEN <<>> ELSE <<hist[Len(hist)]>>)
                \o <<[line |-> command, before |-> keywords]>>
    /\ UNCHANGED <<files, dirOrder, startPc>>

\* the setInterval callback of line 382
TimerTick ==
    /\ running /\ timers # <<>>
    /\ LET f == FetchAllData(isFetching, cycles, keywords, FALSE)
       IN  /\ isFetching' = f.isFetching
           /\ cycles' = f.cycles
           /\ log' = Said(f.said, "")
    /\ rendered' = <<>>
    /\ last' = NoEvent("tick")
    /\ UNCHANGED <<keywords, limits, globalResultLimit, fetchIntervalMinutes,
                   fetchIntervalId, timers, files, dirOrder, ops, startPc, running,
                   hist, typed>>


(* The continuations of handleCommand after an await.                      *)

Config == <<keywords, limits, globalResultLimit, fetchIntervalMinutes,
            fetchIntervalId, timers>>
Fetch == <<isFetching, cycles>>
History == <<hist, typed>>

IsWrite(op) == op.kind \in {"autosave", "save"}
\* the file an operation in flight writes
Target(op) == IF op.kind = "copy" THEN DEFAULT_SETTINGS_FILE ELSE op.name
Writes(op) == op.kind \in {"autosave", "save", "copy"}

\* writeFile of line 59 settles.  Two writeFile calls on one file that
\* overlap are a data race: the file may end up with neither content.
WriteDone(i, outcome) ==
    /\ running
    /\ i \in 1..Len(ops) /\ IsWrite(ops[i])
    /\ outcome = "torn" =>
          \E j \in 1..Len(ops) :
              j # i /\ Writes(ops[j]) /\ Target(ops[j]) = Target(ops[i])
    /\ files' = CASE outcome = "ok" -> WriteFile(files, ops[i].name, ops[i].content)
                  [] outcome = "torn" -> WriteFile(files, ops[i].name, Corrupt)
                  [] outcome = "fail" -> files
    /\ ops' = RemoveAt(ops, i)
    /\ log' = Said(IF outcome = "fail" THEN "Error saving state"
                   ELSE IF ops[i].kind = "save" THEN "Settings saved" ELSE "", "")
    /\ rendered' = <<>>
    /\ last' = NoEvent("write")
    /\ UNCHANGED <<Config, Fetch, History, dirOrder, startPc, running>>

\* lines 357-360: readdir settles and the target of load is looked up
ReadDir(i) ==
    /\ running
    /\ i \in 1..Len(ops) /\ ops[i].kind = "readdir"
    /\ LET targetFile == Find(Listing(files, dirOrder), ops[i].name)
       IN  /\ ops' = IF targetFile = <<>> THEN RemoveAt(ops, i)
                     ELSE [ops EXCEPT ![i] = Op("readfile", targetFile[1], NoDoc)]
           /\ log' = Said(IF targetFile = <<>> THEN "No settings file found" ELSE "", "")
           /\ last' = [NoEvent("readdir") EXCEPT !.arg = <<ops[i].name>>,
                                                 !.target = targetFile]
    /\ rendered' = <<>>
    /\ UNCHANGED <<Config, Fetch, History, files, dirOrder, startPc, running>>

\* line 87: readFile settles
ReadFile(i) ==
    /\ running
    /\ i \in 1..Len(ops) /\ ops[i].kind = "readfile"
    /\ LET found == ops[i].name \in DOMAIN files
       IN  /\ ops' = IF found
                     THEN [ops EXCEPT ![i] = Op("apply", ops[i].name, files[ops[i].name])]
                     ELSE RemoveAt(ops, i)
           /\ log' = Said(IF found THEN "" ELSE "No default settings file found", "")
    /\ rendered' = <<>>
    /\ last' = NoEvent("readfile")
    /\ UNCHANGED <<Config, Fetch, History, files, dirOrder, startPc, running>>

\* lines 88-96: JSON.parse and applyState on what was read
ApplyLoaded(i) ==
    /\ running
    /\ i \in 1..Len(ops) /\ ops[i].kind = "apply"
    /\ LET l == LoadState(<<ops[i].content>>, keywords, limits, globalResultLimit,
                          fetchIntervalMinutes, timers, fetchIntervalId)
       IN  /\ keywords' = l.keywords
           /\ limits' = l.limits
           /\ globalResultLimit' = l.globalResultLimit
           /\ fetchIntervalMinutes' = l.fetchIntervalMinutes
           /\ timers' = l.timers
           /\ fetchIntervalId' = l.fetchIntervalId
           /\ log' = Said(l.said, "")
           /\ last' = [NoEvent("apply") EXCEPT !.doc = <<ops[i].content>>]
    /\ ops' = RemoveAt(ops, i)
    /\ rendered' = <<>>
    /\ hist' = <<>>
    /\ UNCHANGED <<Fetch, files, dirOrder, startPc, running, typed>>

\* line 345: copyFile(args[1], DEFAULT_SETTINGS_FILE) settles
CopyDone(i) ==
    /\ running
    /\ i \in 1..Len(ops) /\ ops[i].kind = "copy"
    /\ LET found == ops[i].name \in DOMAIN files
       IN  /\ files' = IF found
                       THEN WriteFile(files, DEFAULT_SETTINGS_FILE, files[ops[i].name])
                       ELSE files
           /\ log' = Said(IF found THEN "Successfully set" ELSE "Error setting default", "")
    /\ ops' = RemoveAt(ops, i)
    /\ rendered' = <<>>
    /\ last' = NoEvent("copy")
    /\ UNCHANGED <<Config, Fetch, History, dirOrder, startPc, running>>

(* The fetch cycle after its await.                                        *)

\* one adapter promise settles
TaskSettle(c, i, response) ==
    /\ running
    /\ c \in 1..Len(cycles)
    /\ i \in 1..Len(cycles[c].tasks)
    /\ cycles[c].results[i] = <<>>
    /\ cycles' = [cycles EXCEPT
                     ![c].results[i] = <<Adapter(cycles[c].tasks[i], response)>>,
                     ![c].responses[i] = <<response>>]
    /\ rendered' = <<>>
    /\ log' = Said(IF response.error THEN "Error fetching" ELSE "", "")
    /\ last' = NoEvent("settle")
    /\ UNCHANGED <<Config, History, isFetching, files, dirOrder, ops, startPc, running>>

\* Promise.all of line 224 is fulfilled when every task is
AllSettled(cycle) == \A i \in 1..Len(cycle.tasks) : cycle.results[i] # <<>>
SomeRejected(cycle) ==
    \E i \in 1..Len(cycle.tasks) :
        cycle.results[i] # <<>> /\ cycle.results[i][1].rejected

\* Promise.all of line 224 settles and fetchAllData runs to its end, lines
\* 224-260, or is left by a rejection or by the TypeError of line 239
CycleFinish(c) ==
    /\ running
    /\ c \in 1..Len(cycles)
    /\ AllSettled(cycles[c]) \/ SomeRejected(cycles[c])
    /\ LET cycle == cycles[c]
           unique == UniqueResults(AllResultsRaw(cycle.results))
           final == FinalResults(unique, AllKeywords(keywords))
           thrown == IF SomeRejected(cycle) THEN "Unhandled rejection"
                     ELSE IF PipelineThrows(final) THEN "TypeError" ELSE ""
       IN  /\ rendered' = IF thrown # "" THEN <<>>
                          ELSE <<SortByDate(Truncated(final, limits, globalResultLimit))>>
           /\ isFetching' = IF thrown # "" THEN isFetching ELSE FALSE
           /\ log' = Said(thrown, IF thrown # "" THEN "" ELSE "Update Complete")
           /\ startPc' = IF cycle.awaited /\ thrown = "" THEN "done" ELSE startPc
           /\ last' = IF SomeRejected(cycle)
                      THEN [NoEvent("finish") EXCEPT !.cycle = <<cycle>>]
                      ELSE [NoEvent("finish") EXCEPT !.cycle = <<cycle>>,
                                                     !.unique = unique,
                                                     !.final = final]
    /\ cycles' = RemoveAt(cycles, c)
    /\ UNCHANGED <<Config, History, files, dirOrder, ops, running>>

----------------------------------------------------------------------------
(* Inputs: keywords, command lines, files and network responses.           *)

K_pi == <<"p", "i">>
K_go == <<"g", "o">>
K_empty == <<>>
K_space == <<" ">>

\* sign is "+" or "-"; scope is <<>> (all sources) or a word after the sign
KeywordCommand(sign, scope, k) == <<sign>> \o scope \o <<" ", DQ>> \o k \o <<DQ>>
Words(a, b) == a \o <<" ">> \o b

F_a == <<"a">> \o DotJson
FileNames == <<DEFAULT_SETTINGS_FILE, F_a>>
Reverse(s) == [i \in 1..Len(s) |-> s[Len(s) + 1 - i]]

Doc(kws, lims, global, minutes) == SavableState(kws, lims, global, minutes)
Kws(r, h, d) == [s \in SourceSet |-> CASE s = "reddit" -> r [] s = "hn" -> h [] s = "ddg" -> d]
Lims(r, h, d) == [s \in SourceSet |-> CASE s = "reddit" -> r [] s = "hn" -> h [] s = "ddg" -> d]
NoFiles == [f \in {} |-> Corrupt]
OneFile(name, doc) == [f \in {name} |-> doc]


NetworkError == [error |-> TRUE, entries |-> <<>>]
Response(entries) == [error |-> FALSE, entries |-> entries]
RssEntry(title, link, isoDate, snippet) ==
    [title |-> title, link |-> link, isoDate |-> isoDate, snippet |-> snippet]
DdgEntry(title, link, snippet) == [title |-> title, link |-> link, snippet |-> snippet]

T_pi == <<"P", "i">>
T_piano == <<"p", "i", "a", "n", "o">>
T_go_pi == <<"g", "o", " ", "p", "i">>

\* the responses one task may get, from a pool [rss, ddg]
ResponsesFor(pool, task) == IF task.source = "ddg" THEN pool.ddg ELSE pool.rss

\* the steps every specification has: the timer, the adapters, the cycle
CycleSteps(pool) ==
    \/ TimerTick
    \/ \E c \in 1..Len(cycles) : \E i \in 1..Len(cycles[c].tasks) :
          \E r \in ResponsesFor(pool, cycles[c].tasks[i]) : TaskSettle(c, i, r)
    \/ \E c \in 1..Len(cycles) : CycleFinish(c)

WriteOutcomes == {"ok", "torn", "fail"}

----------------------------------------------------------------------------
(* SpecKw: the keyword commands.                                           *)

KwFiles ==
    {NoFiles,
     OneFile(DEFAULT_SETTINGS_FILE,
             Doc(Kws(<<K_pi>>, <<K_go>>, <<>>), NoLimits, 10, 5))}
KwCommands ==
    {KeywordCommand(sign, scope, K_pi) : sign \in {"+", "-"}, scope \in {<<>>, W_reddit}}
    \cup {KeywordCommand("+", W_ddg, K_empty), KeywordCommand("+", W_hn, K_space)}
KwResponses == [rss |-> {NetworkError}, ddg |-> {NetworkError}]
MaxKwCmds == 2

InitKw == Init /\ files \in KwFiles /\ dirOrder = FileNames
NextKw ==
    \/ Start
    \/ \E command \in KwCommands : HandleCommand(command, MaxKwCmds)
    \/ \E i \in 1..Len(ops) : WriteDone(i, "ok")
    \/ CycleSteps(KwResponses)
SpecKw == InitKw /\ [][NextKw]_vars


Scopes == {<<>>, W_reddit, W_hn, W_ddg}
Keywords == {K_pi, K_go, K_empty, K_space}
ScopeSources(scope) == IF scope = <<>> THEN SourceSet ELSE {SourceKey(scope)}
Without(set, k) == SelectSeq(set, LAMBDA x : x # k)
AddThenRemove(scope, k) ==
    /\ Len(hist) = 2
    /\ hist[1].line = KeywordCommand("+", scope, k)
    /\ hist[2].line = KeywordCommand("-", scope, k)

\* C5, as stated: add(s, k) directly followed by remove(s, k) leaves the
\* keyword set of every source of s exactly as it was before the add.
C5_AddRemoveRestores ==
    \A scope \in Scopes : \A k \in Keywords :
        AddThenRemove(scope, k) =>
            \A s \in ScopeSources(scope) : keywords[s] = hist[1].before[s]

\* C5, amended: add(s, k) directly followed by remove(s, k) leaves the
\* keyword set of every source of s equal to its content before the add
\* without k: unchanged when k was not in it, and with k removed when it was.
C5_AddRemoveDeletes ==
    \A scope \in Scopes : \A k \in Keywords :
        AddThenRemove(scope, k) =>
            \A s \in ScopeSources(scope) :
                /\ keywords[s] = Without(hist[1].before[s], k)
                /\ k \notin Range(hist[1].before[s]) => keywords[s] = hist[1].before[s]

\* the add and remove of a keyword that one source of the scope held and
\* another did not
C5_Witness ==
    /\ AddThenRemove(<<>>, K_pi)
    /\ K_pi \in Range(hist[1].before["reddit"])
    /\ K_pi \notin Range(hist[1].before["hn"])
    /\ hist[1].before["hn"] # <<>>

\* String.prototype.trim
RECURSIVE Trim(_)
Trim(k) ==
    IF k # <<>> /\ IsSpace(Head(k)) THEN Trim(Tail(k))
    ELSE IF k # <<>> /\ IsSpace(k[Len(k)]) THEN Trim(SubSeq(k, 1, Len(k) - 1))
    ELSE k

\* C6: no source's keyword set holds a string that is empty after trimming.
C6_NoEmptyKeyword ==
    \A s \in SourceSet : \A i \in 1..Len(keywords[s]) : Trim(keywords[s][i]) # <<>>

\* the events that call fetchAllData: a tick of the timer, a + or - command
\* and the fetch command
IsKeywordCommand(ev) ==
    /\ ev.ev = "cmd"
    /\ Tokenize(ev.line[1]) # <<>>
    /\ Head(ActionOf(ev.line[1])) \in {"+", "-"}
IsRequest(ev) ==
    ev.ev = "tick" \/ IsKeywordCommand(ev) \/ (ev.ev = "cmd" /\ ev.line = <<W_fetch>>)
ShortCircuits ==
    /\ cycles' = cycles
    /\ "No keywords to monitor" \in Range(log')
    /\ rendered' = <<>>
    /\ ~isFetching'

\* C13, as stated: a cycle request made while every source's keyword set is
\* empty dispatches no adapter call, emits the nothing-to-monitor message,
\* renders nothing and leaves isFetching reset.
C13_EmptyStoreShortCircuits ==
    [][(IsRequest(last') /\ keywords' = NoKeywords) => ShortCircuits]_vars

\* C13, amended: the same, for a request made while isFetching is not set.
C13_EmptyStoreShortCircuitsWhenIdle ==
    [][(IsRequest(last') /\ keywords' = NoKeywords /\ ~isFetching) => ShortCircuits]_vars

\* a remove command on an empty store, answered with the message
C13_Witness ==
    /\ IsRequest(last) /\ keywords = NoKeywords
    /\ "No keywords to monitor" \in Range(log)
    /\ ~isFetching /\ cycles = <<>>

\* the (source, keyword) pairs of a keyword store
PairsOf(kws) ==
    UNION {{[source |-> s, kw |-> k] : k \in Range(kws[s])} : s \in SourceSet}
OnePerPair(tasks, kws) ==
    /\ \A i \in 1..Len(tasks) : tasks[i] \in PairsOf(kws)
    /\ \A p \in PairsOf(kws) : Cardinality({i \in 1..Len(tasks) : tasks[i] = p}) = 1
StartsCycle ==
    IF keywords' = NoKeywords THEN cycles' = cycles
    ELSE /\ Len(cycles') = Len(cycles) + 1
         /\ OnePerPair(cycles'[Len(cycles')].tasks, keywords')

\* C16, as stated: every + or - command, whether isFetching is set or not,
\* starts at once a cycle with one task per (source, keyword) pair of the
\* updated store.
C16_KeywordCommandFetches ==
    [][IsKeywordCommand(last') => StartsCycle]_vars

\* C16, amended: every + or - command that arrives while isFetching is not
\* set starts at once a cycle with one task per (source, keyword) pair of
\* the updated store (none when the store is empty).
C16_KeywordCommandFetchesWhenIdle ==
    [][(IsKeywordCommand(last') /\ ~isFetching) => StartsCycle]_vars

\* a + or - command that has just started the cycle in flight
C16_Witness ==
    /\ IsKeywordCommand(last)
    /\ "Checking for new items" \in Range(log)
    /\ Len(cycles) = 1 /\ cycles[1].tasks # <<>>
    /\ OnePerPair(cycles[1].tasks, keywords)

----------------------------------------------------------------------------
(* SpecCycle: the fetch cycle on settings a former run saved.              *)

E_pi == RssEntry(<<T_pi>>, "l1", <<Now - 1>>, <<>>)
E_go_pi == RssEntry(<<T_go_pi>>, "l2", <<Now - 2>>, <<>>)
E_piano == RssEntry(<<T_piano>>, "l3", <<Now - 1>>, <<>>)
E_nolink == RssEntry(<<T_pi>>, "", <<Now - 3>>, <<>>)
E_old == RssEntry(<<T_pi>>, "l4", <<Now - 31>>, <<>>)
E_late == RssEntry(<<T_pi>>, "l5", <<Now - 4>>, K_go)
E_x == RssEntry(<<T_go_pi>>, "l8", <<Now - 5>>, <<>>)
E_y == RssEntry(<<T_piano>>, "l9", <<Now - 2>>, T_pi)
E_z == RssEntry(<<T_pi>>, "l10", <<Now - 1>>, <<>>)
D_pi == DdgEntry(T_pi, "l1", <<>>)
D_go == DdgEntry(K_go, "l6", T_go_pi)
D_notitle == DdgEntry(<<>>, "l7", T_pi)

CycleResponses ==
    [rss |-> {NetworkError,
              Response(<<E_pi, E_go_pi>>),
              Response(<<E_nolink, E_late, E_go_pi, E_piano>>),
              Response(<<E_old, E_x, E_y, E_z>>)},
     ddg |-> {NetworkError, Response(<<D_notitle, D_go, D_pi>>)}]

CycleFiles ==
    {OneFile(DEFAULT_SETTINGS_FILE,
             Doc(Kws(<<K_pi, K_go>>, <<>>, <<K_pi>>), Lims(<<>>, <<>>, <<>>), 2, 5)),
     OneFile(DEFAULT_SETTINGS_FILE,
             Doc(Kws(<<K_pi>>, <<K_pi>>, <<>>), Lims(<<1>>, <<>>, <<0>>), 2, 5))}
CycleCommands ==
    {W_fetch,
     KeywordCommand("+", W_ddg, K_pi),
     KeywordCommand("-", W_reddit, K_pi),
     Words(<<"~">> \o W_reddit, <<"0">>)}
MaxCycleCmds == 1

InitCycle == Init /\ files \in CycleFiles /\ dirOrder = FileNames
NextCycle ==
    \/ Start
    \/ \E command \in CycleCommands : HandleCommand(command, MaxCycleCmds)
    \/ \E i \in 1..Len(ops) : WriteDone(i, "ok")
    \/ CycleSteps(CycleResponses)
SpecCycle == InitCycle /\ [][NextCycle]_vars


Finished == last.ev = "finish" /\ rendered # <<>>
Raw == AllResultsRaw(last.cycle[1].results)

\* C1: at most one fetch cycle is in flight, and a cycle request (timer
\* tick or command) that arrives while isFetching is set starts no cycle
\* and leaves the cycle in flight as it is: it is dropped, not queued.
C1_OneCycleInFlight ==
    /\ [](Len(cycles) <= 1)
    /\ [][(isFetching /\ last'.ev \in {"tick", "cmd"}) => cycles' = cycles]_vars

\* a fetch command dropped while a cycle with a settled task is in flight
C1_Witness ==
    /\ last.ev = "cmd" /\ last.line = <<W_fetch>>
    /\ isFetching /\ Len(cycles) = 1
    /\ \E i \in 1..Len(cycles[1].tasks) : cycles[1].results[i] # <<>>
    /\ log = <<>>

\* the items of the adapter calls whose network request succeeded
Succeeded(cycle) ==
    Flat([i \in 1..Len(cycle.tasks) |->
            IF cycle.responses[i][1].error THEN <<>>
            ELSE Adapter(cycle.tasks[i], cycle.responses[i][1]).items])

\* C2: whatever subset of the adapter calls of a cycle fails, the cycle
\* completes (isFetching is reset, a list is rendered, nothing is thrown)
\* and the rendered list is what the pipeline yields from the items of the
\* calls that succeeded, a failed call counting as an empty list.
C2_FailedCallsAreEmpty ==
    last.ev = "finish" =>
        /\ ~isFetching
        /\ "Unhandled rejection" \notin Range(log)
        /\ rendered = <<DisplayResults(Succeeded(last.cycle[1]), keywords, limits,
                                       globalResultLimit)>>

\* a cycle that ends with a failed call and renders an item of another call
C2_Witness ==
    /\ Finished
    /\ \E i \in 1..Len(last.cycle[1].tasks) : last.cycle[1].responses[i][1].error
    /\ rendered[1] # <<>>

\* the limit of the source of an item, as line 251 reads it
LimitOf(item) ==
    LET s == CHOOSE k \in SourceSet : SourceName(k) = item.source
    IN  IF limits[s] # <<>> THEN limits[s][1] ELSE globalResultLimit
Matches(item) == MatchedKeywords(ItemText(item), AllKeywords(keywords)) # <<>>
\* an upper bound of the rank of Raw[i] among the matched items of its source
RankInSource(i) == Cardinality({j \in 1..i : Raw[j].source = Raw[i].source})
IsRendered(item) == \E j \in 1..Len(rendered[1]) : rendered[1][j].item = item

\* C8, as stated: an item without a link is treated as unique, so when it
\* matches a keyword and is within its source's limit, it is rendered.
C8_LinklessRendered ==
    Finished =>
        \A i \in 1..Len(Raw) :
            (Raw[i].link = "" /\ Matches(Raw[i]) /\ RankInSource(i) <= LimitOf(Raw[i]))
                => IsRendered(Raw[i])

\* C8, amended: an item without a link is never deduplicated against any
\* other item (it removes no item that has a link), and it is discarded
\* before matching: it is in neither uniqueResults nor the rendered list.
C8_LinklessDropped ==
    Finished =>
        /\ \A j \in 1..Len(rendered[1]) : rendered[1][j].item.link # ""
        /\ \A u \in 1..Len(last.unique) : last.unique[u].link # ""
        /\ \A i \in 1..Len(Raw) :
              Raw[i].link # "" =>
                  \E u \in 1..Len(last.unique) : last.unique[u].link = Raw[i].link

\* a cycle that got an item without a link that matches a keyword and is
\* within its source's limit, and rendered other items
C8_Witness ==
    /\ Finished
    /\ rendered[1] # <<>>
    /\ \E i \in 1..Len(Raw) :
          Raw[i].link = "" /\ Matches(Raw[i]) /\ RankInSource(i) <= LimitOf(Raw[i])

FirstWithLink(raw, link) ==
    CHOOSE i \in 1..Len(raw) :
        raw[i].link = link /\ \A j \in 1..(i - 1) : raw[j].link # link

\* C9: for every link carried by raw items of a cycle, exactly one item
\* with that link reaches matching, and it is the first one in the merged
\* order of the task results.
C9_FirstOccurrenceWins ==
    Finished =>
        \A i \in 1..Len(Raw) :
            Raw[i].link # "" =>
                /\ Cardinality({u \in 1..Len(last.unique) :
                                    last.unique[u].link = Raw[i].link}) = 1
                /\ \E u \in 1..Len(last.unique) :
                      last.unique[u] = Raw[FirstWithLink(Raw, Raw[i].link)]

\* a cycle in which one link came with different items from two sources,
\* and one link from two keyword queries of one source
C9_Witness ==
    /\ Finished
    /\ \E i, j \in 1..Len(Raw) :
          /\ i < j /\ Raw[i].link # "" /\ Raw[i].link = Raw[j].link
          /\ Raw[i].source # Raw[j].source
    /\ \E i, j \in 1..Len(Raw) :
          /\ i < j /\ Raw[i].link # "" /\ Raw[i].link = Raw[j].link
          /\ Raw[i].source = Raw[j].source

OfSource(results, s) ==
    SelectSeq(results, LAMBDA r : r.item.source = SourceName(s))
Min(a, b) == IF a < b THEN a ELSE b
Override(s) == limits[s] # <<>>
Limit(s) == IF Override(s) THEN limits[s][1] ELSE globalResultLimit

\* C10: for every source the rendered list holds exactly the first
\* min(n, L) of its n matched items in the order of the matched list, L
\* being the per-source override when set (0 included) and the global
\* limit otherwise.
C10_HeadOfEachSource ==
    Finished =>
        \A s \in SourceSet :
            LET matched == OfSource(last.final, s)
                shown == OfSource(rendered[1], s)
                k == Min(Len(matched), Limit(s))
            IN  /\ Len(shown) = k
                /\ Range(shown) = {matched[i] : i \in 1..k}

\* a cycle in which an override cut a source to an item older than one it
\* dropped, while another source was cut by the global limit
C10_Witness ==
    /\ Finished
    /\ \E s \in SourceSet :
          /\ Override(s) /\ Limit(s) = 1
          /\ Len(OfSource(last.final, s)) > 1
          /\ SortKey(OfSource(last.final, s)[1]) < SortKey(OfSource(last.final, s)[2])
    /\ \E s \in SourceSet :
          ~Override(s) /\ Len(OfSource(last.final, s)) > globalResultLimit

\* the list line 255 sorts, and the place of one of its results in it
PreSort == Truncated(last.final, limits, globalResultLimit)
PlaceIn(list, r) == CHOOSE i \in 1..Len(list) : list[i] = r
Dated(r) == r.item.date # <<>>
SameKey(a, b) ==
    IF Dated(a) /\ Dated(b) THEN a.item.date[1] = b.item.date[1]
    ELSE ~Dated(a) /\ ~Dated(b)

\* C11: the rendered list holds the truncated results of all sources ordered
\* by publish timestamp descending, a result without a timestamp after every
\* result that has one, and results with equal sort keys in the order they
\* had after the per-source truncation.
C11_NewestFirstStable ==
    Finished =>
        LET shown == rendered[1]
        IN  /\ Len(shown) = Len(PreSort) /\ Range(shown) = Range(PreSort)
            /\ \A i, j \in 1..Len(shown) :
                  i < j =>
                      /\ ~Dated(shown[i]) => ~Dated(shown[j])
                      /\ (Dated(shown[i]) /\ Dated(shown[j])) =>
                            shown[i].item.date[1] >= shown[j].item.date[1]
                      /\ SameKey(shown[i], shown[j]) =>
                            PlaceIn(PreSort, shown[i]) < PlaceIn(PreSort, shown[j])

\* a cycle whose truncated list held an older result before a newer one,
\* and two results without a timestamp
C11_Witness ==
    /\ Finished
    /\ \E i, j \in 1..Len(PreSort) :
          /\ i < j /\ Dated(PreSort[i]) /\ Dated(PreSort[j])
          /\ PreSort[i].item.date[1] < PreSort[j].item.date[1]
    /\ \E i, j \in 1..Len(PreSort) :
          i < j /\ ~Dated(PreSort[i]) /\ ~Dated(PreSort[j])

----------------------------------------------------------------------------
(* SpecCfg: the commands that change limits and interval, save and load.   *)

SetCommand(setting, value) == Words(Words(W_set, setting), value)
CfgFiles ==
    {NoFiles,
     OneFile(F_a, Doc(Kws(<<K_pi>>, <<>>, <<>>), Lims(<<>>, <<1>>, <<>>), 3, 2))}
CfgCommands ==
    {Words(<<"~">> \o W_hn, <<"2">>),
     SetCommand(W_list, <<"0">>),
     SetCommand(W_interval, <<"1">>),
     Words(W_save, F_a),
     Words(W_load, F_a),
     SetCommand(W_default, F_a)}
CfgResponses == [rss |-> {NetworkError}, ddg |-> {NetworkError}]
MaxCfgCmds == 3

InitCfg == Init /\ files \in CfgFiles /\ dirOrder \in {FileNames, Reverse(FileNames)}
NextCfg ==
    \/ Start
    \/ \E command \in CfgCommands : HandleCommand(command, MaxCfgCmds)
    \/ \E i \in 1..Len(ops) : \E outcome \in WriteOutcomes : WriteDone(i, outcome)
    \/ \E i \in 1..Len(ops) : ReadDir(i)
    \/ \E i \in 1..Len(ops) : ReadFile(i)
    \/ \E i \in 1..Len(ops) : ApplyLoaded(i)
    \/ \E i \in 1..Len(ops) : CopyDone(i)
    \/ CycleSteps(CfgResponses)
SpecCfg == InitCfg /\ [][NextCfg]_vars

Current == SavableState(keywords, limits, globalResultLimit, fetchIntervalMinutes)
Loaded == last.ev = "apply" /\ log = <<"Successfully loaded">>
Autosaved == last.ev = "write" /\ log = <<>>

\* C3: when a command that changed the configuration has finished (its
\* autosave was written, or its load was applied) and no command is in
\* progress, settings.json holds the current configuration.
C3_SettingsFileCurrent ==
    (ops = <<>> /\ (Loaded \/ Autosaved)) =>
        /\ DEFAULT_SETTINGS_FILE \in DOMAIN files
        /\ files[DEFAULT_SETTINGS_FILE] = Current

\* C4: a load of a file that a save wrote leaves the keyword sets, the
\* limits, the global limit and the interval equal to the saved ones.
C4_SaveLoadRoundTrip == Loaded => Current = last.doc[1]

----------------------------------------------------------------------------
(* SpecErr: commands that are user input errors.                           *)

InputErrors ==
    {<<"b", "o", "g", "u", "s">>,
     KeywordCommand("+", <<"x", "x">>, K_go),
     KeywordCommand("-", <<"x", "x">>, K_pi),
     Words(<<"~", "x", "x">>, <<"1">>),
     Words(<<"~">> \o W_hn, <<"x">>),
     Words(<<"~">> \o W_hn, <<"-", "1">>),
     SetCommand(W_list, <<"x">>),
     SetCommand(W_list, <<"-", "1">>),
     SetCommand(W_interval, <<"0">>),
     SetCommand(W_interval, <<"x">>),
     Words(W_set, <<"x">>),
     W_save,
     W_load,
     Words(W_set, W_default)}
ErrFiles ==
    {OneFile(DEFAULT_SETTINGS_FILE,
             Doc(Kws(<<K_pi>>, <<>>, <<>>), NoLimits, 10, 5))}
ErrCommands == InputErrors \cup {W_list, W_help, W_clear, W_exit}
ErrResponses == [rss |-> {NetworkError}, ddg |-> {NetworkError}]
MaxErrCmds == 2

InitErr == Init /\ files \in ErrFiles /\ dirOrder = FileNames
NextErr ==
    \/ Start
    \/ \E command \in ErrCommands : HandleCommand(command, MaxErrCmds)
    \/ \E i \in 1..Len(ops) : WriteDone(i, "ok")
    \/ CycleSteps(ErrResponses)
SpecErr == InitErr /\ [][NextErr]_vars

\* C7: a command that is a user input error changes no keyword set, no
\* limit and no interval, and starts no autosave write.
C7_InputErrorChangesNothing ==
    [][(last'.ev = "cmd" /\ last'.line[1] \in InputErrors) =>
          /\ UNCHANGED <<keywords, limits, globalResultLimit, fetchIntervalMinutes>>
          /\ ops' = ops]_vars

----------------------------------------------------------------------------
(* SpecMatch: the fetch cycle with a keyword that ends in punctuation.     *)

K_cpp == <<"c", "+", "+">>
T_cppx == <<"c", "+", "+", "x">>
E_cpp == RssEntry(<<K_cpp>>, "l11", <<Now - 1>>, <<>>)
E_cppx == RssEntry(<<T_cppx>>, "l12", <<Now - 2>>, <<>>)

MatchFiles ==
    {OneFile(DEFAULT_SETTINGS_FILE,
             Doc(Kws(<<K_cpp>>, <<K_pi>>, <<>>), NoLimits, 10, 5))}
MatchCommands == {W_fetch}
MatchResponses ==
    [rss |-> {NetworkError,
              Response(<<E_cpp, E_piano, E_pi>>),
              Response(<<E_cppx, E_go_pi>>)},
     ddg |-> {NetworkError}]
MaxMatchCmds == 1

InitMatch == Init /\ files \in MatchFiles /\ dirOrder = FileNames
NextMatch ==
    \/ Start
    \/ \E command \in MatchCommands : HandleCommand(command, MaxMatchCmds)
    \/ CycleSteps(MatchResponses)
SpecMatch == InitMatch /\ [][NextMatch]_vars

\* kw stands in text, ignoring case, with no word character next to it
OccursAsWord(text, kw) ==
    \E i \in 1..(Len(text) - Len(kw) + 1) :
        /\ \A j \in 1..Len(kw) : LowerCh(text[i + j - 1]) = LowerCh(kw[j])
        /\ i = 1 \/ ~IsWordCh(text[i - 1])
        /\ i + Len(kw) > Len(text) \/ ~IsWordCh(text[i + Len(kw)])
PassedOn(item) == \E r \in 1..Len(last.final) : last.final[r].item = item

\* C12: a deduplicated item is passed on to the limiter if and only if a
\* keyword of the union of the keyword sets occurs in title + " " + snippet
\* as a case-insensitive whole word, and only items passed on are rendered.
C12_PassedIffWholeWord ==
    Finished =>
        /\ \A u \in 1..Len(last.unique) :
              PassedOn(last.unique[u]) <=>
                  \E k \in Range(AllKeywords(keywords)) :
                      OccursAsWord(ItemText(last.unique[u]), k)
        /\ \A j \in 1..Len(rendered[1]) : PassedOn(rendered[1][j].item)

----------------------------------------------------------------------------
(* SpecLoad: load on files that are well formed, malformed, or named       *)
(* without the extension, next to a keyword and an interval command.       *)

F_bare == <<"a">>
F_b == <<"b">>
LoadNames == <<DEFAULT_SETTINGS_FILE, F_a, F_bare>>
Lacking(doc, field) == [doc EXCEPT ![field] = <<>>]
ScalarKeywords(doc, s) == [doc EXCEPT !.scalar = {s}, !.keywords[1][s] = <<>>]

Doc_s == Doc(Kws(<<K_pi>>, <<>>, <<>>), NoLimits, 10, 5)
Doc_a == Doc(Kws(<<K_go>>, <<K_go>>, <<>>), Lims(<<>>, <<1>>, <<>>), 3, 2)
Doc_bare == Doc(Kws(<<>>, <<>>, <<K_pi>>), NoLimits, 7, 3)

LoadFiles ==
    {OneFile(F_a, Doc_a),
     WriteFile(OneFile(DEFAULT_SETTINGS_FILE, Doc_s), F_a,
               Lacking(Doc_a, "fetchIntervalMinutes")),
     WriteFile(OneFile(DEFAULT_SETTINGS_FILE, Doc_s), F_a, ScalarKeywords(Doc_a, "hn")),
     WriteFile(WriteFile(OneFile(DEFAULT_SETTINGS_FILE, Doc_s), F_a, Doc_a),
               F_bare, Doc_bare),
     WriteFile(OneFile(DEFAULT_SETTINGS_FILE, Lacking(Doc_s, "limits")), F_a,
               Lacking(Doc_a, "keywords"))}
LoadCommands ==
    {Words(W_load, F_bare),
     Words(W_load, F_a),
     Words(W_load, F_b),
     SetCommand(W_interval, <<"4", "0", "0", "0", "0">>),
     KeywordCommand("+", W_ddg, K_go)}
LoadResponses == [rss |-> {NetworkError}, ddg |-> {NetworkError}]
MaxLoadCmds == 2

InitLoad == Init /\ files \in LoadFiles /\ dirOrder = LoadNames
NextLoad ==
    \/ Start
    \/ \E command \in LoadCommands : HandleCommand(command, MaxLoadCmds)
    \/ \E i \in 1..Len(ops) : WriteDone(i, "ok")
    \/ \E i \in 1..Len(ops) : ReadDir(i)
    \/ \E i \in 1..Len(ops) : ReadFile(i)
    \/ \E i \in 1..Len(ops) : ApplyLoaded(i)
    \/ CycleSteps(LoadResponses)
SpecLoad == InitLoad /\ [][NextLoad]_vars

\* a step in which loadState got the content of a file
Loads(ev) == ev.ev \in {"start", "apply"} /\ ev.doc # <<>>
LacksRequired(doc) ==
    /\ doc.json
    /\ doc.keywords = <<>> \/ doc.limits = <<>> \/ doc.fetchIntervalMinutes = <<>>

\* C14: a load of a file that lacks keywords, limits or fetchIntervalMinutes
\* reports the error and leaves the keyword sets, the limits, the global
\* limit, the interval and the timer as they were.
C14_MalformedLoadChangesNothing ==
    [][(Loads(last') /\ LacksRequired(last'.doc[1])) =>
          /\ "Error loading state" \in Range(log')
          /\ "Successfully loaded" \notin Range(log')
          /\ UNCHANGED <<keywords, limits, globalResultLimit, fetchIntervalMinutes,
                         timers, fetchIntervalId>>]_vars

\* the load command on a file without fetchIntervalMinutes, refused while
\* keywords are held and a timer runs
C14_Witness ==
    /\ last.ev = "apply"
    /\ last.doc[1].json /\ last.doc[1].fetchIntervalMinutes = <<>>
    /\ log = <<"Error loading state">>
    /\ keywords # NoKeywords /\ Len(timers) = 1

\* the configuration a document holds is now the one in memory
HoldsAll(doc) ==
    /\ ApplyStateAccepts(doc) /\ doc.scalar = {}
    /\ keywords' = LoadedKeywords(doc)
    /\ limits' = doc.limits[1]
    /\ globalResultLimit' = LoadedGlobalLimit(doc)
    /\ fetchIntervalMinutes' = doc.fetchIntervalMinutes[1]

\* C15: after a load, whatever the file holds, the configuration in memory
\* is either wholly the one of the file or wholly the one held before.
C15_LoadAllOrNothing ==
    [][Loads(last') =>
          \/ UNCHANGED <<keywords, limits, globalResultLimit, fetchIntervalMinutes>>
          \/ HoldsAll(last'.doc[1])]_vars

\* the names readdir lists that start with x and end with .json
Candidates(x) ==
    {i \in 1..Len(Listing(files, dirOrder)) :
        /\ StartsWith(Listing(files, dirOrder)[i], x)
        /\ EndsWith(Listing(files, dirOrder)[i], DotJson)}

\* C17: load X takes the file named exactly X when it exists, otherwise the
\* first name in listing order that starts with X and ends with .json, and
\* fails, leaving the configuration as it was, when there is neither.
C17_ExactNameFirst ==
    [][last'.ev = "readdir" =>
          LET x == last'.arg[1]
          IN  IF x \in DOMAIN files THEN last'.target = <<x>>
              ELSE IF Candidates(x) # {}
              THEN last'.target =
                     <<Listing(files, dirOrder)[
                          CHOOSE i \in Candidates(x) : \A j \in Candidates(x) : i <= j]>>
              ELSE /\ last'.target = <<>>
                   /\ "No settings file found" \in Range(log')
                   /\ UNCHANGED <<keywords, limits, globalResultLimit,
                                  fetchIntervalMinutes>>]_vars

\* C18: at most one timer is scheduled, and its period is the current
\* fetchIntervalMinutes.
C18_OneTimerOfCurrentPeriod ==
    /\ Len(timers) <= 1
    /\ \A t \in 1..Len(timers) :
          /\ timers[t] % MsPerMinute = 0
          /\ timers[t] \div MsPerMinute = fetchIntervalMinutes

\* C19: a cycle is started with exactly one adapter call per (source,
\* keyword) pair of the store at that moment, and no step changes the calls
\* of a cycle in flight.
C19_TasksFixedAtStart ==
    [][/\ Len(cycles') > Len(cycles) =>
             OnePerPair(cycles'[Len(cycles')].tasks, keywords')
       /\ Len(cycles') >= Len(cycles) =>
             \A c \in 1..Len(cycles) : cycles'[c].tasks = cycles[c].tasks]_vars

\* a load applied while a cycle is in flight: the calls of the cycle are not
\* those of the loaded store
C19_Witness ==
    /\ last.ev = "apply" /\ log = <<"Successfully loaded">>
    /\ Len(cycles) = 1 /\ cycles[1].tasks # <<>>
    /\ ~OnePerPair(cycles[1].tasks, keywords)
    /\ \E i \in 1..Len(cycles[1].tasks) : cycles[1].results[i] = <<>>

\* C20: once start has returned, a periodic timer is scheduled.
C20_TimerAfterStartup ==
    (running /\ startPc = "done") => Len(timers) >= 1

----------------------------------------------------------------------------
(* SpecTitle: feed items of any content, and cycles that run to their end. *)

\* a feed entry without a <title>: rss-parser leaves item.title undefined
E_untitled == RssEntry(<<>>, "l13", <<Now - 1>>, T_pi)
\* an untitled entry that matches no tracked keyword
E_unmatched == RssEntry(<<>>, "l14", <<Now - 2>>, T_piano)
\* an entry without isoDate and one with an empty content
E_undated == RssEntry(<<T_pi>>, "l15", <<>>, <<>>)
E_bare == RssEntry(<<T_pi>>, "l16", <<Now - 3>>, <<>>)

TitleResponses ==
    [rss |-> {NetworkError,
              Response(<<E_undated, E_bare>>),
              Response(<<E_unmatched, E_bare>>),
              Response(<<E_bare, E_untitled>>)},
     ddg |-> {NetworkError, Response(<<D_notitle, D_pi>>)}]
TitleFiles ==
    {OneFile(DEFAULT_SETTINGS_FILE,
             Doc(Kws(<<K_pi>>, <<>>, <<K_pi>>), Lims(<<>>, <<>>, <<>>), 2, 5)),
     OneFile(DEFAULT_SETTINGS_FILE,
             Doc(Kws(<<>>, <<K_pi>>, <<>>), Lims(<<>>, <<>>, <<>>), 2, 5))}
TitleCommands == {W_fetch, KeywordCommand("+", W_hn, K_go)}
MaxTitleCmds == 2

InitTitle == Init /\ files \in TitleFiles /\ dirOrder = FileNames
Settles ==
    \E c \in 1..Len(cycles) : \E i \in 1..Len(cycles[c].tasks) :
        \E r \in ResponsesFor(TitleResponses, cycles[c].tasks[i]) : TaskSettle(c, i, r)
Finishes == \E c \in 1..Len(cycles) : CycleFinish(c)
NextTitle ==
    \/ Start
    \/ \E command \in TitleCommands : HandleCommand(command, MaxTitleCmds)
    \/ \E i \in 1..Len(ops) : WriteDone(i, "ok")
    \/ TimerTick
    \/ Settles
    \/ Finishes
\* the steps of NextTitle that take a cycle out of flight are those of
\* CycleFinish, which is enabled whenever its guard holds
Resumes ==
    \E c \in 1..Len(cycles) :
        /\ running
        /\ AllSettled(cycles[c]) \/ SomeRejected(cycles[c])
        /\ cycles' = RemoveAt(cycles, c)
\* every adapter call settles (the requests time out or answer), the
\* continuation of a settled Promise.all is run by the event loop, and the
\* timer of line 382 fires
SpecTitle ==
    /\ InitTitle /\ [][NextTitle]_vars
    /\ WF_vars(Settles) /\ WF_cycles(Resumes) /\ WF_vars(TimerTick)

\* C21: once a fetch cycle has started, and every adapter call it
\* dispatched settles, the fetch state returns to Idle, whatever the
\* returned items hold.
C21_CycleReturnsToIdle == isFetching ~> ~isFetching

----------------------------------------------------------------------------
(* The cycle waits for all of its adapter calls (SpecCycle).               *)

Unresolved(cycle) == \E i \in 1..Len(cycle.tasks) : cycle.results[i] = <<>>

\* C22: while an adapter call of the cycle in flight is unresolved, nothing
\* is rendered and the fetch state stays Fetching: the step that ends a
\* cycle (deduplication, matching, limiting, rendering, back to Idle) is
\* taken on a cycle all of whose calls have settled, by a list of items
\* or by the empty list of a soft failure, and no other step renders or
\* takes the fetch state from Fetching to Idle.
C22_RenderAfterAllSettled ==
    /\ [](\A c \in 1..Len(cycles) :
             Unresolved(cycles[c]) => isFetching /\ rendered = <<>>)
    /\ [][/\ last'.ev = "finish" =>
                /\ ~Unresolved(last'.cycle[1])
                /\ \E c \in 1..Len(cycles) : cycles[c] = last'.cycle[1]
          /\ (rendered' # <<>> \/ (isFetching /\ ~isFetching')) =>
                last'.ev = "finish"]_vars

\* a cycle of several calls has ended and rendered results, one call having
\* failed softly and another having delivered items
C22_Witness ==
    /\ last.ev = "finish" /\ rendered # <<>> /\ rendered[1] # <<>>
    /\ ~isFetching
    /\ Len(last.cycle[1].tasks) >= 2
    /\ \E i, j \in 1..Len(last.cycle[1].tasks) :
          /\ last.cycle[1].responses[i][1].error
          /\ ~last.cycle[1].responses[j][1].error
          /\ last.cycle[1].results[j][1].items # <<>>

----------------------------------------------------------------------------
(* SpecInterval: the fetch interval, set by command and by loaded files.   *)

\* documents that hold the three fields line 72 asks for
Doc_zero == Doc(Kws(<<K_go>>, <<>>, <<>>), NoLimits, 3, 0)
Doc_minus == Doc(Kws(<<>>, <<>>, <<>>), Lims(<<>>, <<1>>, <<>>), 3, -3)

IntervalFiles ==
    {WriteFile(OneFile(DEFAULT_SETTINGS_FILE, Doc_s), F_a, Doc_zero),
     WriteFile(OneFile(DEFAULT_SETTINGS_FILE, Doc_s), F_a, Doc_minus),
     OneFile(DEFAULT_SETTINGS_FILE, Doc_minus),
     OneFile(F_a, Doc_a)}
IntervalCommands ==
    {Words(W_load, F_a),
     SetCommand(W_interval, <<"0">>),
     SetCommand(W_interval, <<"-", "2">>),
     SetCommand(W_interval, <<"3">>)}
IntervalResponses == [rss |-> {NetworkError}, ddg |-> {NetworkError}]
MaxIntervalCmds == 2

InitInterval == Init /\ files \in IntervalFiles /\ dirOrder = FileNames
NextInterval ==
    \/ Start
    \/ \E command \in IntervalCommands : HandleCommand(command, MaxIntervalCmds)
    \/ \E i \in 1..Len(ops) : WriteDone(i, "ok")
    \/ \E i \in 1..Len(ops) : ReadDir(i)
    \/ \E i \in 1..Len(ops) : ReadFile(i)
    \/ \E i \in 1..Len(ops) : ApplyLoaded(i)
    \/ CycleSteps(IntervalResponses)
SpecInterval == InitInterval /\ [][NextInterval]_vars

\* C23: in every reachable state fetchIntervalMinutes is a positive
\* integer, whether it is the default, was set by `set interval` or was
\* read from a file that applyState accepts.
C23_IntervalPositive == fetchIntervalMinutes >= 1

====
